---------------------------- MODULE Spec2Model ----------------------------
(***************************************************************************)
(* netspeed (src/main.c): samples the per-interface byte counters of       *)
(* /proc/net/dev every polling interval and prints the aggregate rx/tx     *)
(* rate.  The module models main() and the functions it calls as a state   *)
(* machine.  Strings are tuples of one-character strings; unsigned long    *)
(* long values are tuples of four 16-bit limbs, least significant first,   *)
(* so that arithmetic keeps its 64-bit width; unsigned int values are      *)
(* tuples of two such limbs.                                               *)
(***************************************************************************)
EXTENDS Integers, Sequences, FiniteSets, TLC

(***************************************************************************)
(* Program constants.                                                      *)
(***************************************************************************)
MAX_INTERFACES == 32
MAX_NAME_LEN == 16
DECIMAL_BASE == 1000

(***************************************************************************)
(* Bounds of the model.                                                    *)
(***************************************************************************)
\* steady-loop iterations explored after the initial read
MaxCycles == 2
\* lines of /proc/net/dev after its two header lines
MaxLines == 4
\* the formatter is applied to every byte count up to MaxBytes, and to
\* MaxBytes further ones spread over the K range
MaxBytes == 2600

(***************************************************************************)
(* Fixed-width unsigned arithmetic.                                        *)
(***************************************************************************)
Limb == 256 * 256

\* unsigned long long: the value of a natural number below 2^31
ToU64(n) == << n % Limb, (n \div Limb) % Limb, 0, 0 >>

Zero64 == ToU64(0)

\* a + b modulo 2^64
Add64(a, b) ==
    LET s1 == a[1] + b[1]
        s2 == a[2] + b[2] + (s1 \div Limb)
        s3 == a[3] + b[3] + (s2 \div Limb)
        s4 == a[4] + b[4] + (s3 \div Limb)
    IN  << s1 % Limb, s2 % Limb, s3 % Limb, s4 % Limb >>

\* a - b modulo 2^64
Sub64(a, b) ==
    LET d1 == a[1] - b[1]
        d2 == a[2] - b[2] - (IF d1 < 0 THEN 1 ELSE 0)
        d3 == a[3] - b[3] - (IF d2 < 0 THEN 1 ELSE 0)
        d4 == a[4] - b[4] - (IF d3 < 0 THEN 1 ELSE 0)
    IN  << d1 % Limb, d2 % Limb, d3 % Limb, d4 % Limb >>

\* a < b
Less64(a, b) ==
    IF a[4] # b[4] THEN a[4] < b[4]
    ELSE IF a[3] # b[3] THEN a[3] < b[3]
    ELSE IF a[2] # b[2] THEN a[2] < b[2]
    ELSE a[1] < b[1]

\* a * m modulo 2^64 for a factor 0 <= m < 2^15
MulSmall64(a, m) ==
    LET p1 == a[1] * m
        p2 == a[2] * m + (p1 \div Limb)
        p3 == a[3] * m + (p2 \div Limb)
        p4 == a[4] * m + (p3 \div Limb)
    IN  << p1 % Limb, p2 % Limb, p3 % Limb, p4 % Limb >>

\* a / m for a divisor 1 <= m < 2^15: one limb at a time
DivSmall64(a, m) ==
    LET r4 == a[4] % m
        n3 == r4 * Limb + a[3]
        r3 == n3 % m
        n2 == r3 * Limb + a[2]
        r2 == n2 % m
        n1 == r2 * Limb + a[1]
    IN  << n1 \div m, n2 \div m, n3 \div m, a[4] \div m >>

\* byte k (0 = least significant) of a
Byte64(a, k) == (a[(k \div 2) + 1] \div (IF k % 2 = 0 THEN 1 ELSE 256)) % 256

\* the value made of eight bytes, least significant first
FromBytes64(b) ==
    << b[1] + 256 * b[2], b[3] + 256 * b[4], b[5] + 256 * b[6], b[7] + 256 * b[8] >>

\* r - q * d and q, with q raised until the remainder is below d
RECURSIVE DivCorrect(_, _, _)
DivCorrect(r, d, q) ==
    IF Less64(r, d) THEN << q, r >> ELSE DivCorrect(Sub64(r, d), d, q + 1)

\* one digit of a long division in base 256 by a divisor 2^15 <= d < 2^32,
\* for a running remainder r < 256 * d: <<digit, new remainder>>.  The
\* digit is first estimated from below on the leading bits of r and d
\* (those above the lowest 16 when d >= 2^24, above the lowest 8 otherwise).
DivDigit(r, d) ==
    LET est == IF d[2] >= 256
               THEN (r[2] + Limb * r[3]) \div (d[2] + 1)
               ELSE ((r[1] \div 256) + 256 * r[2])
                        \div ((d[1] \div 256) + 256 * d[2] + 1)
    IN  DivCorrect(Sub64(r, MulSmall64(d, est)), d, est)

\* long division in base 256, from byte k of a down: the quotient bytes
\* found so far are in q, the running remainder is r
RECURSIVE DivBytes64(_, _, _, _, _)
DivBytes64(a, d, k, q, r) ==
    IF k < 0 THEN FromBytes64(q)
    ELSE \* the let-bound step is evaluated once
         LET step == DivDigit(Add64(MulSmall64(r, 256), ToU64(Byte64(a, k))), d)
         IN  DivBytes64(a, d, k - 1, [ q EXCEPT ![k + 1] = step[1] ], step[2])

\* a / d for a divisor 1 <= d < 2^32 (unsigned integer division)
Div64(a, d) ==
    IF Less64(a, d) THEN Zero64
    ELSE IF d[2] = 0 /\ d[1] < 32768
         THEN DivSmall64(a, d[1])
         ELSE DivBytes64(a, d, 7, << 0, 0, 0, 0, 0, 0, 0, 0 >>, Zero64)

\* (unsigned int) of an int: two's complement in 32 bits
ToU32(v) ==
    IF v >= 0
    THEN << v % Limb, (v \div Limb) % Limb >>
    ELSE LET m  == 0 - v
             lo == m % Limb
             hi == (m \div Limb) % Limb
         IN  << (Limb - lo) % Limb,
                (2 * Limb - hi - (IF lo > 0 THEN 1 ELSE 0)) % Limb >>

\* (unsigned long long) of an unsigned int
U32ToU64(u) == << u[1], u[2], 0, 0 >>


(***************************************************************************)
(* Strings.                                                                *)
(***************************************************************************)
Str_eth0    == << "e", "t", "h", "0" >>
Str_wlan0   == << "w", "l", "a", "n", "0" >>
Str_lo      == << "l", "o" >>
Str_docker0 == << "d", "o", "c", "k", "e", "r", "0" >>
Str_eth01   == << "e", "t", "h", "0", "1" >>
Str_Eth0    == << "E", "t", "h", "0" >>
Str_enp3s0  == << "e", "n", "p", "3", "s", "0" >>
Str_wlp2s0  == << "w", "l", "p", "2", "s", "0" >>
Str_nosuch  == << "n", "o", "s", "u", "c", "h" >>
Str_Error   == << "E", "r", "r", "o", "r" >>
Str_eth     == << "e", "t", "h" >>
\* a name of 15 characters, the longest the kernel gives an interface
Str_wlp15   == << "w", "l", "p", "0", "s", "2", "0", "f", "0", "u", "1", "u",
                  "2", "i", "0" >>

DigitChars == << "0", "1", "2", "3", "4", "5", "6", "7", "8", "9" >>

IsDigit(c) == \E d \in 1..10 : DigitChars[d] = c

DigitValue(c) == (CHOOSE d \in 1..10 : DigitChars[d] = c) - 1

\* isspace() on the characters the inputs use
IsSpace(c) == c \in { " ", "\t", "\n" }

\* the decimal digits of s from position k on, accumulated onto acc
RECURSIVE AtoiDigits(_, _, _)
AtoiDigits(s, k, acc) ==
    IF k > Len(s) \/ ~IsDigit(s[k]) THEN acc
    ELSE AtoiDigits(s, k + 1, acc * 10 + DigitValue(s[k]))

\* first position of s at or after k that holds no white space
RECURSIVE SkipSpace(_, _)
SkipSpace(s, k) ==
    IF k <= Len(s) /\ IsSpace(s[k]) THEN SkipSpace(s, k + 1) ELSE k

\* atoi(): optional white space, optional sign, then the leading digits;
\* 0 when there are none
atoi(s) ==
    LET k == SkipSpace(s, 1)
    IN  IF k <= Len(s) /\ s[k] = "-" THEN 0 - AtoiDigits(s, k + 1, 0)
        ELSE IF k <= Len(s) /\ s[k] = "+" THEN AtoiDigits(s, k + 1, 0)
        ELSE AtoiDigits(s, k, 0)

\* s starts with p
HasPrefix(s, p) == Len(s) >= Len(p) /\ SubSeq(s, 1, Len(p)) = p

(***************************************************************************)
(* The host.                                                               *)
(***************************************************************************)
\* the entries of /sys/class/net
SysClassNet ==
    { Str_lo, Str_eth0, Str_wlan0, Str_docker0, Str_eth01, Str_Eth0,
      Str_enp3s0, Str_wlp2s0 }

\* the command lines explored: the options in the order getopt returns them
\* (Opt_unknown is one it rejects) and the positional interface names
Opt_t(arg) == [ opt |-> "t", arg |-> arg ]
Opt_unknown == [ opt |-> "?", arg |-> << >> ]
Cmd(opts, names) == [ opts |-> opts, names |-> names ]

Argvs ==
    { Cmd(<< >>, << >>),
      Cmd(<< Opt_t(<< "2" >>) >>, << >>),
      Cmd(<< Opt_t(<< "0" >>) >>, << >>),
      Cmd(<< Opt_t(<< "-", "5" >>) >>, << >>),
      Cmd(<< Opt_t(<< "a", "b", "c" >>) >>, << >>),
      Cmd(<< Opt_t(<< "2" >>), Opt_t(<< "0" >>) >>, << Str_eth0 >>),
      Cmd(<< Opt_unknown >>, << >>),
      Cmd(<< >>, << Str_eth0 >>),
      Cmd(<< >>, << Str_nosuch >>),
      Cmd(<< >>, << Str_eth0, Str_nosuch, Str_wlan0 >>),
      Cmd(<< Opt_t(<< "0" >>) >>, << Str_nosuch >>) }

(***************************************************************************)
(* /proc/net/dev.                                                          *)
(***************************************************************************)
\* the sixteen numeric columns of a line: received bytes first,
\* transmitted bytes ninth
CounterFields(rx, tx) ==
    [ i \in 1..16 |-> IF i = 1 THEN rx ELSE IF i = 9 THEN tx ELSE i ]

\* a line after the two headers: the text before its first colon (the whole
\* text when it has none) and the numbers that parse after the colon
DevLine(head, colon, fields) ==
    [ head |-> head, colon |-> colon, fields |-> fields ]

\* the file as one read finds it
DevFile(readable, lines) == [ readable |-> readable, lines |-> lines ]

Unreadable == DevFile(FALSE, << >>)

\* byte counters <<rx, tx>> an interface may show
CounterPairs == { << 1000, 500 >>, << 3000, 1500 >>, << 7, 3 >> }

\* the lines the polling loop may find: each name right-aligned as the
\* kernel prints it
LoopLines ==
    { DevLine(<< " ", " " >> \o n, TRUE, CounterFields(c[1], c[2])) :
        n \in { Str_eth0, Str_wlan0 }, c \in CounterPairs }
    \cup { DevLine(<< " ", " ", " ", " " >> \o Str_lo, TRUE, CounterFields(40, 40)) }

\* sequences of lines of pairwise distinct interface names
DistinctHeads(ls) ==
    \A i, j \in 1..Len(ls) : i # j => ls[i].head # ls[j].head

LoopFiles ==
    { Unreadable } \cup
    { DevFile(TRUE, ls) :
        ls \in { l \in UNION { [1..n -> LoopLines] : n \in 0..MaxLines } : DistinctHeads(l) } }


\* the lines a single read is tried on, in the order the kernel lists them:
\* names inside and outside the prefix pattern, a name that extends
\* another, one that differs in case, a line one number short, a line
\* without a colon, and two names longer than the 15 characters stored
\* which differ after the 15th only
ReadLinesPool ==
    << DevLine(<< " ", " ", " ", " " >> \o Str_lo, TRUE, CounterFields(100, 101)),
       DevLine(<< " ", " " >> \o Str_eth0, TRUE, CounterFields(200, 201)),
       DevLine(<< " " >> \o Str_wlan0, TRUE, CounterFields(300, 301)),
       DevLine(Str_docker0, TRUE, CounterFields(400, 401)),
       DevLine(<< " " >> \o Str_eth01, TRUE, CounterFields(500, 501)),
       DevLine(<< " ", " " >> \o Str_Eth0, TRUE, CounterFields(600, 601)),
       DevLine(Str_enp3s0, TRUE, CounterFields(700, 701)),
       DevLine(Str_wlp2s0, TRUE, CounterFields(800, 801)),
       DevLine(<< " ", " " >> \o Str_eth0, TRUE, SubSeq(CounterFields(900, 901), 1, 15)),
       DevLine(<< " " >> \o Str_wlan0 \o << " ", "1", " ", "2" >>, FALSE, << >>),
       DevLine(Str_wlp15 \o << "a" >>, TRUE, CounterFields(1000, 1001)),
       DevLine(Str_wlp15 \o << "b", "c" >>, TRUE, CounterFields(1100, 1101)) >>

\* the members of the set of positions S, in increasing order
RECURSIVE Ascending(_)
Ascending(S) ==
    IF S = { } THEN << >>
    ELSE LET m == CHOOSE x \in S : \A y \in S : x <= y
         IN  << m >> \o Ascending(S \ { m })

Reverse(q) == [ i \in 1..Len(q) |-> q[Len(q) + 1 - i] ]

\* the name eth<i>, in two digits
EthName(i) == Str_eth \o << DigitChars[(i \div 10) + 1], DigitChars[(i % 10) + 1] >>

\* line i of a long file: eth<i> with counters of its own, but for a
\* line of lo at position 3 and a line one number short at position 10
LongFileLine(i) ==
    IF i = 3 THEN DevLine(<< " ", " ", " ", " " >> \o Str_lo, TRUE, CounterFields(3, 3))
    ELSE IF i = 10 THEN DevLine(EthName(i), TRUE,
                                SubSeq(CounterFields(i, 2 * i), 1, 15))
    ELSE DevLine(<< " ", " " >> \o EthName(i), TRUE, CounterFields(i, 2 * i))

\* files of MAX_INTERFACES lines and more, with two lines fewer to collect
LongFiles ==
    { DevFile(TRUE, [ i \in 1..n |-> LongFileLine(i) ]) :
        n \in MAX_INTERFACES..(MAX_INTERFACES + MaxLines) }

\* a file of more than MAX_INTERFACES lines that all name eth0
RepeatedFiles ==
    { DevFile(TRUE, [ i \in 1..(MAX_INTERFACES + 1) |->
                        DevLine(<< " ", " " >> \o Str_eth0, TRUE, CounterFields(i, i)) ]) }

\* the files a single read is tried on: at most MaxLines lines of the pool,
\* in its order or in the opposite order, and the long files
ReadFiles ==
    { Unreadable } \cup LongFiles \cup RepeatedFiles \cup
    UNION { { DevFile(TRUE, [ i \in 1..Len(Ascending(S)) |-> ReadLinesPool[Ascending(S)[i]] ]),
              DevFile(TRUE, Reverse([ i \in 1..Len(Ascending(S)) |-> ReadLinesPool[Ascending(S)[i]] ])) } :
            S \in { T \in SUBSET (1..Len(ReadLinesPool)) : Cardinality(T) <= MaxLines } }

\* the command lines a single read is tried under
ReadArgvs ==
    { Cmd(<< >>, << >>),
      Cmd(<< >>, << Str_eth0 >>),
      Cmd(<< >>, << Str_wlan0, Str_eth0 >>),
      Cmd(<< >>, << Str_lo, Str_docker0 >>) }

(***************************************************************************)
(* The state of the process.                                               *)
(***************************************************************************)
VARIABLES
    argv,               \* the command line
    pc,                 \* where main() stands
    optidx,             \* options getopt has returned so far
    polling_interval,   \* unsigned int
    interface_filter,   \* the positional names, once stored
    filter_count,
    prev_interfaces,    \* interface_t[MAX_INTERFACES]
    curr_interfaces,    \* interface_t[MAX_INTERFACES]
    prev_count,
    curr_count,
    rate,               \* rx_rate and tx_rate of each current interface in
                        \* the last rate calculation
    dev,                \* /proc/net/dev as the last read found it
    out,                \* stdout: the lines written before the loop, then
                        \* those of the current iteration
    err,                \* stderr
    exit_status,        \* -1 while the process runs
    n_reads,            \* calls of read_interfaces so far
    n_sleeps,           \* calls of sleep so far
    last_good,          \* history: the entries of the most recent read that
                        \* returned at least one interface
    prev_age            \* history: calls of sleep since the snapshot held in
                        \* prev_interfaces was read

vars == << argv, pc, optidx, polling_interval, interface_filter, filter_count,
           prev_interfaces, curr_interfaces, prev_count, curr_count, rate,
           dev, out, err, exit_status, n_reads, n_sleeps, last_good,
           prev_age >>

\* interface_t
Interface(name, rx, tx) == [ name |-> name, rx_bytes |-> rx, tx_bytes |-> tx ]

\* the first count entries of an array of interfaces
Entries(interfaces, count) == [ i \in 1..count |-> interfaces[i] ]

\* interface_t x[MAX_INTERFACES] = {}
ZeroInterfaces == [ i \in 1..MAX_INTERFACES |-> Interface(<< >>, Zero64, Zero64) ]

(***************************************************************************)
(* Error output.                                                           *)
(***************************************************************************)
\* the line output_error prints
output_error(text, tooltip) ==
    [ kind |-> "error", text |-> text, tooltip |-> tooltip ]

(***************************************************************************)
(* The double arithmetic of format_human_readable.  A double at or above   *)
(* 1.0 is a record [m, e] with 2^52 <= m < 2^53, of value m * 2^(e - 52);  *)
(* every operation rounds to nearest, ties to even, as IEEE 754 does.      *)
(***************************************************************************)
\* number of bits of a natural number below 2^16
RECURSIVE BitLen(_)
BitLen(n) == IF n = 0 THEN 0 ELSE 1 + BitLen(n \div 2)

\* number of bits of an unsigned long long
BitLen64(a) ==
    IF a[4] # 0 THEN 48 + BitLen(a[4])
    ELSE IF a[3] # 0 THEN 32 + BitLen(a[3])
    ELSE IF a[2] # 0 THEN 16 + BitLen(a[2])
    ELSE BitLen(a[1])

\* 2^k
RECURSIVE Pow2(_)
Pow2(k) == IF k = 0 THEN 1 ELSE 2 * Pow2(k - 1)

\* a * 2^s modulo 2^64
RECURSIVE Shl64(_, _)
Shl64(a, s) ==
    IF s = 0 THEN a
    ELSE IF s > 14 THEN Shl64(MulSmall64(a, Pow2(14)), s - 14)
    ELSE MulSmall64(a, Pow2(s))

\* a / 2^s, truncated
RECURSIVE Shr64(_, _)
Shr64(a, s) ==
    IF s = 0 THEN a
    ELSE IF s > 14 THEN Shr64(DivSmall64(a, Pow2(14)), s - 14)
    ELSE DivSmall64(a, Pow2(s))

\* q or q + 1: q rounded up when the remainder rem of a division is above
\* half, or is half and q is odd
RoundEven(q, rem, half) ==
    IF Less64(half, rem) \/ (rem = half /\ q[1] % 2 = 1)
    THEN Add64(q, ToU64(1))
    ELSE q

\* a / 2^s rounded to nearest, ties to even, for s >= 1
RoundShr64(a, s) ==
    LET q == Shr64(a, s)
    IN  RoundEven(q, Sub64(a, Shl64(q, s)), Shl64(ToU64(1), s - 1))

\* the double of significand m and exponent e, where rounding may have
\* carried m to 2^53
Double(m, e) ==
    IF m = Shl64(ToU64(1), 53)
    THEN [ m |-> Shl64(ToU64(1), 52), e |-> e + 1 ]
    ELSE [ m |-> m, e |-> e ]

\* (double)bytes for bytes >= 1
ToDouble(bytes) ==
    LET len == BitLen64(bytes)
    IN  IF len <= 53
        THEN Double(Shl64(bytes, 53 - len), len - 1)
        ELSE Double(RoundShr64(bytes, len - 53), len - 1)

\* value > DECIMAL_BASE
AtLeastBase_Strict(value) ==
    \/ value.e > 9
    \/ value.e = 9 /\ Less64(Shl64(ToU64(DECIMAL_BASE), 52 - 9), value.m)

\* value >= DECIMAL_BASE
AtLeastBase(value) ==
    \/ value.e > 9
    \/ value.e = 9 /\ ~Less64(value.m, Shl64(ToU64(DECIMAL_BASE), 52 - 9))

\* value / 1000.0: the significand times 2^s, with s the one of 9 and 10
\* that leaves the quotient 53 bits, divided by DECIMAL_BASE and rounded
DivBase(value) ==
    LET s   == IF DivSmall64(Shl64(value.m, 10), DECIMAL_BASE)[4] >= 32
               THEN 9 ELSE 10
        n   == Shl64(value.m, s)
        q   == DivSmall64(n, DECIMAL_BASE)
        rem == Sub64(n, MulSmall64(q, DECIMAL_BASE))
    IN  Double(RoundEven(q, MulSmall64(rem, 2), ToU64(DECIMAL_BASE)),
               value.e - s)

\* while (value >= DECIMAL_BASE && unit_idx < num_units - 1)
RECURSIVE ScaleLoop(_, _, _)
ScaleLoop(value, unit_idx, num_units) ==
    IF AtLeastBase(value) /\ unit_idx < num_units - 1
    THEN ScaleLoop(DivBase(value), unit_idx + 1, num_units)
    ELSE [ value |-> value, unit_idx |-> unit_idx ]

\* the number of tenths "%.1f" prints for a value in [1, 2^20): 10 * value
\* rounded to an integer, ties to even
Tenths(value) ==
    LET t == RoundShr64(MulSmall64(value.m, 10), 52 - value.e)
    IN  t[1] + Limb * t[2]

\* "%llu" or "%d" of a natural number below 2^31
RECURSIVE Decimal(_)
Decimal(n) ==
    IF n < 10 THEN << DigitChars[n + 1] >>
    ELSE Append(Decimal(n \div 10), DigitChars[(n % 10) + 1])

\* what snprintf(buffer, size, ...) leaves of the text s
Snprintf(size, s) == SubSeq(s, 1, IF Len(s) < size THEN Len(s) ELSE size - 1)

\* "%4s": s right-aligned in a field of width 4
RECURSIVE Pad4(_)
Pad4(s) == IF Len(s) >= 4 THEN s ELSE Pad4(<< " " >> \o s)

units == << "B", "K", "M", "G", "T", "P" >>

\* the formatter without its branch for bytes < DECIMAL_BASE
format_human_readable_AlwaysScaled(bytes) ==
    LET scaled == ScaleLoop(ToDouble(bytes), 0, Len(units))
        tenths == Tenths(scaled.value)
    IN  Snprintf(16, Decimal(tenths \div 10)
                       \o << ".", DigitChars[(tenths % 10) + 1] >>
                       \o << units[scaled.unit_idx + 1] >>)

\* format_human_readable(bytes, output): the text left in output
format_human_readable(bytes) ==
    IF Less64(bytes, ToU64(DECIMAL_BASE))
    THEN Snprintf(16, Decimal(bytes[1]) \o << units[1] >>)
    ELSE LET scaled == ScaleLoop(ToDouble(bytes), 0, Len(units))
             tenths == Tenths(scaled.value)
         IN  Snprintf(16, Decimal(tenths \div 10)
                            \o << ".", DigitChars[(tenths % 10) + 1] >>
                            \o << units[scaled.unit_idx + 1] >>)

(***************************************************************************)
(* Sample output.                                                          *)
(***************************************************************************)
\* the line output_json prints: the two rates, their formatted fields and
\* the value of "text"
output_json(rx_rate, tx_rate) ==
    LET rx_str == format_human_readable(rx_rate)
        tx_str == format_human_readable(tx_rate)
    IN  [ kind |-> "sample", rx |-> rx_rate, tx |-> tx_rate,
          rx_str |-> rx_str, tx_str |-> tx_str,
          text |-> Pad4(rx_str) \o << " ", " " >> \o Pad4(tx_str) \o << " " >> ]

(***************************************************************************)
(* Interface selection.                                                    *)
(***************************************************************************)
interface_exists(name) == name \in SysClassNet

\* ^(eth|wlan|enp|wlp)
IfacePrefixes ==
    { << "e", "t", "h" >>, << "w", "l", "a", "n" >>,
      << "e", "n", "p" >>, << "w", "l", "p" >> }

\* mutant: the pattern is compiled to ignore case
is_valid_interface_IgnoreCase(name) ==
    \E p \in IfacePrefixes :
        HasPrefix([ i \in 1..Len(name) |-> IF name[i] = "E" THEN "e" ELSE name[i] ], p)

is_valid_interface(name) == \E p \in IfacePrefixes : HasPrefix(name, p)

\* mutant: the comparison stops at the end of the listed name
InFilter_Prefix(name, filter, count) ==
    \E i \in 1..count : HasPrefix(name, filter[i])

\* the loop over interface_filter: strcmp(name, interface_filter[i]) == 0
InFilter(name, filter, count) == \E i \in 1..count : filter[i] = name

\* whether read_interfaces keeps a line of this name
Selected(name, filter, count) ==
    IF count > 0 THEN InFilter(name, filter, count)
    ELSE is_valid_interface(name)

(***************************************************************************)
(* read_interfaces.                                                        *)
(***************************************************************************)
\* while (*name == ' ') name++
RECURSIVE StripLeadingSpaces(_)
StripLeadingSpaces(s) ==
    IF Len(s) > 0 /\ s[1] = " " THEN StripLeadingSpaces(Tail(s)) ELSE s

\* mutant: the name is left as the compound literal zeroed it
StoredName_NotWritten(name) == << >>

\* snprintf(.., MAX_NAME_LEN, "%.15s", name)
StoredName(name) ==
    IF Len(name) > MAX_NAME_LEN - 1 THEN SubSeq(name, 1, MAX_NAME_LEN - 1)
    ELSE name

\* mutant: fifteen numbers are enough
ParsesSixteen_Fifteen(fields) == Len(fields) >= 15

\* sscanf of sixteen %llu returned 16
ParsesSixteen(fields) == Len(fields) >= 16

\* mutant: the loop goes on while count < MAX_INTERFACES - 1
RECURSIVE ReadLines_OneLess(_, _, _, _, _, _)
ReadLines_OneLess(lines, k, interfaces, count, filter, fcount) ==
    IF k > Len(lines) \/ count >= MAX_INTERFACES - 1
    THEN [ interfaces |-> interfaces, count |-> count ]
    ELSE
        LET line == lines[k]
            name == StripLeadingSpaces(line.head)
        IN  IF ~line.colon
            THEN ReadLines_OneLess(lines, k + 1, interfaces, count, filter, fcount)
            ELSE IF ~Selected(name, filter, fcount)
            THEN ReadLines_OneLess(lines, k + 1, interfaces, count, filter, fcount)
            ELSE IF ~ParsesSixteen(line.fields)
            THEN ReadLines_OneLess(lines, k + 1, interfaces, count, filter, fcount)
            ELSE ReadLines_OneLess(lines, k + 1,
                           [ interfaces EXCEPT ![count + 1] =
                               Interface(StoredName(name),
                                         ToU64(line.fields[1]),
                                         ToU64(line.fields[9])) ],
                           count + 1, filter, fcount)

\* the while loop over the lines, from line k with count entries stored
RECURSIVE ReadLines(_, _, _, _, _, _)
ReadLines(lines, k, interfaces, count, filter, fcount) ==
    IF k > Len(lines) \/ count >= MAX_INTERFACES
    THEN [ interfaces |-> interfaces, count |-> count ]
    ELSE
        LET line == lines[k]
            name == StripLeadingSpaces(line.head)
        IN  IF ~line.colon
            THEN ReadLines(lines, k + 1, interfaces, count, filter, fcount)
            ELSE IF ~Selected(name, filter, fcount)
            THEN ReadLines(lines, k + 1, interfaces, count, filter, fcount)
            ELSE IF ~ParsesSixteen(line.fields)
            THEN ReadLines(lines, k + 1, interfaces, count, filter, fcount)
            ELSE ReadLines(lines, k + 1,
                           [ interfaces EXCEPT ![count + 1] =
                               Interface(StoredName(name),
                                         ToU64(line.fields[1]),
                                         ToU64(line.fields[9])) ],
                           count + 1, filter, fcount)

\* mutant: a failure to open is not reported
read_interfaces_Silent(interfaces, f, filter, fcount) ==
    IF ~f.readable
    THEN [ ret |-> -1, interfaces |-> interfaces, out |-> << >> ]
    ELSE LET r == ReadLines(f.lines, 1, interfaces, 0, filter, fcount)
         IN  [ ret |-> r.count, interfaces |-> r.interfaces, out |-> << >> ]

\* read_interfaces(interfaces) on the file f: the value returned, the array
\* as it leaves it and the lines it prints
read_interfaces(interfaces, f, filter, fcount) ==
    IF ~f.readable
    THEN [ ret |-> -1, interfaces |-> interfaces,
           out |-> << output_error(Str_Error, "Cannot open /proc/net/dev") >> ]
    ELSE LET r == ReadLines(f.lines, 1, interfaces, 0, filter, fcount)
         IN  [ ret |-> r.count, interfaces |-> r.interfaces, out |-> << >> ]

(***************************************************************************)
(* calculate_and_output_rates.                                             *)
(***************************************************************************)
\* the inner loop: the first j in from..count with prev[j].name equal to
\* name, 0 when there is none
RECURSIVE FindPrev(_, _, _, _)
FindPrev(prev, name, from, count) ==
    IF from > count THEN 0
    ELSE IF prev[from].name = name THEN from
    ELSE FindPrev(prev, name, from + 1, count)

\* mutant: a counter that went down counts as no traffic
RateOf_Saturating(c, p, interval) ==
    IF Less64(c, p) THEN Zero64 ELSE Div64(Sub64(c, p), U32ToU64(interval))

\* (c - p) / (unsigned long long)polling_interval
RateOf(c, p, interval) == Div64(Sub64(c, p), U32ToU64(interval))

\* what the body of the outer loop adds to the totals for curr[i]
InterfaceRate(prev, curr, i, count, interval) ==
    LET j == FindPrev(prev, curr[i].name, 1, count)
    IN  IF j = 0
        THEN [ rx_rate |-> Zero64, tx_rate |-> Zero64 ]
        ELSE [ rx_rate |-> RateOf(curr[i].rx_bytes, prev[j].rx_bytes, interval),
               tx_rate |-> RateOf(curr[i].tx_bytes, prev[j].tx_bytes, interval) ]

\* total_rx_rate and total_tx_rate after the first n interfaces
RECURSIVE TotalRates(_, _)
TotalRates(rates, n) ==
    IF n = 0 THEN [ rx |-> Zero64, tx |-> Zero64 ]
    ELSE LET t == TotalRates(rates, n - 1)
         IN  [ rx |-> Add64(t.rx, rates[n].rx_rate),
               tx |-> Add64(t.tx, rates[n].tx_rate) ]

\* calculate_and_output_rates(prev, curr, count): the per-interface rates
\* and the line printed
calculate_and_output_rates(prev, curr, count, interval) ==
    LET rates == [ i \in 1..count |-> InterfaceRate(prev, curr, i, count, interval) ]
        total == TotalRates(rates, count)
    IN  [ rate |-> rates, out |-> << output_json(total.rx, total.tx) >> ]


(***************************************************************************)
(* main.                                                                   *)
(***************************************************************************)
Init ==
    /\ argv \in Argvs
    /\ pc = "getopt"
    /\ optidx = 0
    /\ polling_interval = ToU32(1)
    /\ interface_filter = << >>
    /\ filter_count = 0
    /\ prev_interfaces = ZeroInterfaces
    /\ curr_interfaces = ZeroInterfaces
    /\ prev_count = 0
    /\ curr_count = 0
    /\ rate = << >>
    /\ dev = DevFile(TRUE, << >>)
    /\ out = << >>
    /\ err = << >>
    /\ exit_status = -1
    /\ n_reads = 0
    /\ n_sleeps = 0
    /\ last_good = << >>
    /\ prev_age = 0

\* mutant: the interval is not validated
IntervalBelowOne_Never(u) == FALSE

\* polling_interval < 1, on an unsigned int
IntervalBelowOne(u) == u[1] = 0 /\ u[2] = 0

\* mutant: only the name at position i is looked at
FirstMissing_OneName(names, i) ==
    IF i <= Len(names) /\ ~interface_exists(names[i]) THEN i ELSE 0

\* the index of the first name of the filter that does not exist, 0 when
\* all exist
RECURSIVE FirstMissing(_, _)
FirstMissing(names, i) ==
    IF i > Len(names) THEN 0
    ELSE IF ~interface_exists(names[i]) THEN i
    ELSE FirstMissing(names, i + 1)

\* one iteration of the getopt loop that returns an option
GetOpt ==
    /\ pc = "getopt"
    /\ optidx < Len(argv.opts)
    /\ LET o == argv.opts[optidx + 1]
           v == ToU32(atoi(o.arg))
       IN  /\ optidx' = optidx + 1
           /\ IF o.opt = "t"
              THEN /\ polling_interval' = v
                   /\ err' = err
                   /\ IF IntervalBelowOne(v)
                      THEN /\ out' = Append(out, output_error(o.arg, "Invalid polling interval"))
                           /\ pc' = "exit"
                           /\ exit_status' = 1
                      ELSE /\ out' = out
                           /\ pc' = pc
                           /\ exit_status' = exit_status
              ELSE /\ polling_interval' = polling_interval
                   /\ err' = Append(err, "Usage: netspeed [-t POLLING_INTERVAL] [INTERFACE...]")
                   /\ out' = out
                   /\ pc' = "exit"
                   /\ exit_status' = 1
    /\ UNCHANGED << argv, interface_filter, filter_count, prev_interfaces,
                    curr_interfaces, prev_count, curr_count, rate, dev,
                    n_reads, n_sleeps,
                    last_good, prev_age >>

\* getopt returns -1: store and validate the interface filter
StoreFilter ==
    /\ pc = "getopt"
    /\ optidx = Len(argv.opts)
    /\ IF Len(argv.names) > 0
       THEN /\ filter_count' = Len(argv.names)
            /\ interface_filter' = argv.names
            /\ LET m == FirstMissing(argv.names, 1)
               IN  IF m > 0
                   THEN /\ out' = Append(out, output_error(argv.names[m], "Interface does not exist"))
                        /\ pc' = "exit"
                        /\ exit_status' = 1
                   ELSE /\ out' = out
                        /\ pc' = "initial_read"
                        /\ exit_status' = exit_status
       ELSE /\ filter_count' = filter_count
            /\ interface_filter' = interface_filter
            /\ out' = out
            /\ pc' = "initial_read"
            /\ exit_status' = exit_status
    /\ UNCHANGED << argv, optidx, polling_interval, prev_interfaces,
                    curr_interfaces, prev_count, curr_count, rate, dev, err,
                    n_reads, n_sleeps,
                    last_good, prev_age >>

\* mutant: only a failure to open counts, an empty snapshot does not
NoSample_OpenFailureOnly(ret) == ret < 0

\* mutant: the result of the read is not looked at
NoSample_Never(ret) == FALSE

\* read_interfaces returned no usable sample: ret <= 0
NoSample(ret) == ret <= 0

\* prev_count = read_interfaces(prev_interfaces); if (prev_count <= 0) return 1
\* with /proc/net/dev one of files
FirstRead(files) ==
    /\ pc = "initial_read"
    /\ \E f \in files :
        \E r \in { read_interfaces(prev_interfaces, f, interface_filter, filter_count) } :
            /\ dev' = f
            /\ prev_interfaces' = r.interfaces
            /\ prev_count' = r.ret
            /\ last_good' = IF r.ret >= 1 THEN Entries(r.interfaces, r.ret)
                                           ELSE last_good
            /\ out' = out \o r.out
            /\ IF NoSample(r.ret)
               THEN pc' = "exit" /\ exit_status' = 1
               ELSE pc' = "sleep" /\ exit_status' = exit_status
    /\ n_reads' = n_reads + 1
    /\ prev_age' = 0
    /\ UNCHANGED << argv, optidx, polling_interval, interface_filter,
                    filter_count, curr_interfaces, curr_count, rate, err,
                    n_sleeps >>

InitialRead == FirstRead(LoopFiles)

\* sleep(polling_interval)
Sleep ==
    /\ pc = "sleep"
    /\ n_sleeps < MaxCycles
    /\ n_sleeps' = n_sleeps + 1
    /\ pc' = "read"
    /\ out' = << >>
    /\ rate' = << >>
    /\ prev_age' = prev_age + 1
    /\ UNCHANGED << argv, optidx, polling_interval, interface_filter,
                    filter_count, prev_interfaces, curr_interfaces, prev_count,
                    curr_count, dev, err, exit_status, n_reads,
                    last_good >>

\* mutant: a read without a usable sample ends the process, as the
\* initial read does
SteadyRead_ReturnOnFailure ==
    /\ pc = "read"
    /\ \E f \in LoopFiles :
        \E r \in { read_interfaces(curr_interfaces, f, interface_filter, filter_count) } :
            /\ dev' = f
            /\ curr_interfaces' = r.interfaces
            /\ curr_count' = r.ret
            /\ last_good' = IF r.ret >= 1 THEN Entries(r.interfaces, r.ret)
                                           ELSE last_good
            /\ out' = out \o r.out
            /\ pc' = IF NoSample(r.ret) THEN "exit" ELSE "calculate"
    /\ n_reads' = n_reads + 1
    /\ UNCHANGED << argv, optidx, polling_interval, interface_filter,
                    filter_count, prev_interfaces, prev_count, rate, err,
                    exit_status, n_sleeps,
                    prev_age >>

\* int curr_count = read_interfaces(curr_interfaces);
\* if (curr_count <= 0) continue
SteadyRead ==
    /\ pc = "read"
    /\ \E f \in LoopFiles :
        \E r \in { read_interfaces(curr_interfaces, f, interface_filter, filter_count) } :
            /\ dev' = f
            /\ curr_interfaces' = r.interfaces
            /\ curr_count' = r.ret
            /\ last_good' = IF r.ret >= 1 THEN Entries(r.interfaces, r.ret)
                                           ELSE last_good
            /\ out' = out \o r.out
            /\ pc' = IF NoSample(r.ret) THEN "sleep" ELSE "calculate"
    /\ n_reads' = n_reads + 1
    /\ UNCHANGED << argv, optidx, polling_interval, interface_filter,
                    filter_count, prev_interfaces, prev_count, rate, err,
                    exit_status, n_sleeps,
                    prev_age >>

\* mutant: the guard is prev_count > 1
Calculate_StrictGuard ==
    /\ pc = "calculate"
    /\ IF prev_count > 1
       THEN \E c \in { calculate_and_output_rates(prev_interfaces, curr_interfaces,
                                                     curr_count, polling_interval) } :
                rate' = c.rate /\ out' = out \o c.out
       ELSE rate' = rate /\ out' = out
    /\ pc' = "copy"
    /\ UNCHANGED << argv, optidx, polling_interval, interface_filter,
                    filter_count, prev_interfaces, curr_interfaces, prev_count,
                    curr_count, dev, err, exit_status, n_reads, n_sleeps,
                    last_good, prev_age >>

\* if (prev_count > 0) calculate_and_output_rates(prev, curr, curr_count)
Calculate ==
    /\ pc = "calculate"
    /\ IF prev_count > 0
       THEN \E c \in { calculate_and_output_rates(prev_interfaces, curr_interfaces,
                                                     curr_count, polling_interval) } :
                rate' = c.rate /\ out' = out \o c.out
       ELSE rate' = rate /\ out' = out
    /\ pc' = "copy"
    /\ UNCHANGED << argv, optidx, polling_interval, interface_filter,
                    filter_count, prev_interfaces, curr_interfaces, prev_count,
                    curr_count, dev, err, exit_status, n_reads, n_sleeps,
                    last_good, prev_age >>

\* mutant: the last entry of the new snapshot is not copied
CopyInterfaces_AllButLast(prev, curr, n) ==
    [ i \in 1..MAX_INTERFACES |-> IF i < n THEN curr[i] ELSE prev[i] ]

\* memcpy(prev_interfaces, curr_interfaces, sizeof(interface_t) * n)
CopyInterfaces(prev, curr, n) ==
    [ i \in 1..MAX_INTERFACES |-> IF i <= n THEN curr[i] ELSE prev[i] ]

\* copy current to previous; prev_count = curr_count
CopyCurrent ==
    /\ pc = "copy"
    /\ prev_interfaces' = CopyInterfaces(prev_interfaces, curr_interfaces, curr_count)
    /\ prev_count' = curr_count
    /\ pc' = "sleep"
    /\ prev_age' = 0
    /\ UNCHANGED << argv, optidx, polling_interval, interface_filter,
                    filter_count, curr_interfaces, curr_count, rate, dev, out,
                    err, exit_status, n_reads, n_sleeps,
                    last_good >>

Next ==
    \/ GetOpt
    \/ StoreFilter
    \/ InitialRead
    \/ Sleep
    \/ SteadyRead
    \/ Calculate
    \/ CopyCurrent

Spec == Init /\ [][Next]_vars

(***************************************************************************)
(* One read in isolation: main() from the stored filter to the end of the  *)
(* initial read, over the wider set of files ReadFiles.                    *)
(***************************************************************************)
InitRead ==
    /\ argv \in ReadArgvs
    /\ pc = "getopt"
    /\ optidx = 0
    /\ polling_interval = ToU32(1)
    /\ interface_filter = << >>
    /\ filter_count = 0
    /\ prev_interfaces = ZeroInterfaces
    /\ curr_interfaces = ZeroInterfaces
    /\ prev_count = 0
    /\ curr_count = 0
    /\ rate = << >>
    /\ dev = DevFile(TRUE, << >>)
    /\ out = << >>
    /\ err = << >>
    /\ exit_status = -1
    /\ n_reads = 0
    /\ n_sleeps = 0
    /\ last_good = << >>
    /\ prev_age = 0

SingleRead == FirstRead(ReadFiles)

NextRead ==
    \/ StoreFilter
    \/ SingleRead

SpecRead == InitRead /\ [][NextRead]_vars

(***************************************************************************)
(* The formatter alone: output_json applied to rates drawn from a set that *)
(* covers every unit and the values around each threshold.                 *)
(***************************************************************************)
\* DECIMAL_BASE^k as an unsigned long long, k <= 6
RECURSIVE PowBase(_)
PowBase(k) == IF k = 0 THEN ToU64(1) ELSE MulSmall64(PowBase(k - 1), DECIMAL_BASE)

\* rates passed as rx_rate: all up to MaxBytes, a stride over the K range,
\* the neighbourhood of 10^6, of every power of 1000 and of 999.95 units,
\* and the largest unsigned long long values
FormatBytes ==
    { ToU64(n) : n \in 0..MaxBytes }
    \cup { ToU64(DECIMAL_BASE + 383 * i) : i \in 0..MaxBytes }
    \cup { ToU64(n) : n \in (DECIMAL_BASE * DECIMAL_BASE - 100)
                            ..(DECIMAL_BASE * DECIMAL_BASE + 100) }
    \cup UNION { { Add64(PowBase(k), ToU64(d)), Sub64(PowBase(k), ToU64(d + 1)) } :
                 k \in 1..6, d \in 0..2 }
    \cup { Sub64(PowBase(k + 1), MulSmall64(PowBase(k - 1), d)) :
           k \in 1..5, d \in 49..51 }
    \cup { Sub64(Zero64, ToU64(d)) : d \in 1..2 }
    \cup { Add64(Shl64(ToU64(1), 53), ToU64(d)) : d \in 0..3 }

\* rates passed as tx_rate
FormatTxBytes == { ToU64(0), ToU64(DECIMAL_BASE - 1), ToU64(1500000) }

InitFormat ==
    /\ argv = Cmd(<< >>, << >>)
    /\ pc = "output_json"
    /\ optidx = 0
    /\ polling_interval = ToU32(1)
    /\ interface_filter = << >>
    /\ filter_count = 0
    /\ prev_interfaces = ZeroInterfaces
    /\ curr_interfaces = ZeroInterfaces
    /\ prev_count = 0
    /\ curr_count = 0
    /\ rate = << >>
    /\ dev = DevFile(TRUE, << >>)
    /\ out = << >>
    /\ err = << >>
    /\ exit_status = -1
    /\ n_reads = 0
    /\ n_sleeps = 0
    /\ last_good = << >>
    /\ prev_age = 0

\* one call of output_json
FormatSample ==
    /\ pc = "output_json"
    /\ \E rx_rate \in FormatBytes, tx_rate \in FormatTxBytes :
          out' = << output_json(rx_rate, tx_rate) >>
    /\ pc' = "formatted"
    /\ UNCHANGED << argv, optidx, polling_interval, interface_filter,
                    filter_count, prev_interfaces, curr_interfaces,
                    prev_count, curr_count, rate, dev, err, exit_status,
                    n_reads, n_sleeps,
                    last_good, prev_age >>

NextFormat == FormatSample

SpecFormat == InitFormat /\ [][NextFormat]_vars


(***************************************************************************)
(* Properties.                                                             *)
(***************************************************************************)
\* the retained previous snapshot has an entry of this name
InRetained(name) ==
    \E j \in 1..prev_count : prev_interfaces[j].name = name

\* the rate calculation of this iteration has run and the new snapshot has
\* not yet replaced the retained one
Calculated == pc = "copy" /\ Len(rate) = curr_count

\* q * d for q, d < 2^32
RECURSIVE MulBytes(_, _, _)
MulBytes(q, d, k) ==
    IF k > 3 THEN Zero64
    ELSE Add64(MulSmall64(MulBytes(q, d, k + 1), 256), MulSmall64(d, Byte64(q, k)))

\* q is the integer quotient of a by d, for 1 <= d < 2^32: q * d <= a and
\* a - q * d < d, with q * d = (high half of q) * d * 2^32 + (low half) * d
\* formed without overflow
IsQuotient64(q, a, d) ==
    LET high == MulBytes(<< q[3], q[4], 0, 0 >>, d, 0)
        low  == MulBytes(<< q[1], q[2], 0, 0 >>, d, 0)
        prod == Add64(<< 0, 0, high[1], high[2] >>, low)
    IN  /\ high[3] = 0 /\ high[4] = 0
        /\ ~Less64(prod, low)
        /\ ~Less64(a, prod)
        /\ Less64(Sub64(a, prod), d)

\* r holds the rates of current entry c against previous entry p:
\* ((c - p) mod 2^64) divided by the polling interval, for rx and for tx
IsRateOf(r, c, p) ==
    /\ IsQuotient64(r.rx_rate, Sub64(c.rx_bytes, p.rx_bytes), U32ToU64(polling_interval))
    /\ IsQuotient64(r.tx_rate, Sub64(c.tx_bytes, p.tx_bytes), U32ToU64(polling_interval))

\* C1: an interface of the current snapshot with no same-named entry in the
\* retained previous snapshot contributes zero to both totals.
C1_NewInterfaceAddsZero ==
    Calculated =>
        \A i \in 1..curr_count :
            ~InRetained(curr_interfaces[i].name) =>
                rate[i].rx_rate = Zero64 /\ rate[i].tx_rate = Zero64

\* C2: every interface of the current snapshot whose name is in the
\* retained previous snapshot contributes (current - previous) / interval
\* against its first same-named retained entry, also when the retained
\* snapshot is the longer one.
C2_MatchedInterfaceCounted ==
    Calculated =>
        \A i \in 1..curr_count : \A j \in 1..prev_count :
            ( /\ prev_interfaces[j].name = curr_interfaces[i].name
              /\ \A k \in 1..(j - 1) : prev_interfaces[k].name # curr_interfaces[i].name )
            => IsRateOf(rate[i], curr_interfaces[i], prev_interfaces[j])

\* the sum modulo 2^64 of the values v[1..n]
RECURSIVE Sum64(_, _)
Sum64(v, n) == IF n = 0 THEN Zero64 ELSE Add64(Sum64(v, n - 1), v[n])

\* the entry of the previous array the scan pairs with current entry i: the
\* first of the scanned entries (as many as the current snapshot holds) with
\* the same name; 0 when there is none
PairedWith(i) ==
    IF \E j \in 1..curr_count : prev_interfaces[j].name = curr_interfaces[i].name
    THEN CHOOSE j \in 1..curr_count :
            /\ prev_interfaces[j].name = curr_interfaces[i].name
            /\ \A k \in 1..(j - 1) : prev_interfaces[k].name # curr_interfaces[i].name
    ELSE 0

\* C10: for each interface the calculation pairs with a previous entry the
\* rate is ((current - previous) mod 2^64) divided by the interval, for rx
\* and tx separately, and the line printed carries the sums of these
\* per-interface rates.
C10_RateArithmetic ==
    Calculated =>
        /\ \A i \in 1..curr_count :
              PairedWith(i) # 0 =>
                  IsRateOf(rate[i], curr_interfaces[i], prev_interfaces[PairedWith(i)])
        /\ Len(out) = 1
        /\ out[1] = output_json(Sum64([ i \in 1..curr_count |-> rate[i].rx_rate ], curr_count),
                                Sum64([ i \in 1..curr_count |-> rate[i].tx_rate ], curr_count))

\* C10 witness: previous {rx 1000, tx 500}, current {rx 3000, tx 1500},
\* interval 2 give rx = 1000 and tx = 500; and in the same calculation a
\* counter that went down gives a rate of at least 2^63
C10_Witness ==
    /\ Calculated
    /\ polling_interval = ToU32(2)
    /\ curr_count = 2
    /\ PairedWith(1) # 0 /\ PairedWith(2) # 0
    /\ curr_interfaces[1].rx_bytes = ToU64(3000) /\ curr_interfaces[1].tx_bytes = ToU64(1500)
    /\ prev_interfaces[PairedWith(1)].rx_bytes = ToU64(1000)
    /\ prev_interfaces[PairedWith(1)].tx_bytes = ToU64(500)
    /\ rate[1].rx_rate = ToU64(1000) /\ rate[1].tx_rate = ToU64(500)
    /\ Less64(curr_interfaces[2].rx_bytes, prev_interfaces[PairedWith(2)].rx_bytes)
    /\ rate[2].rx_rate[4] >= 16384


\* the last read of the steady loop gave no usable sample and the loop is
\* back at its sleep
CycleSkipped == pc = "sleep" /\ n_sleeps >= 1 /\ curr_count <= 0

\* C3: a steady-loop read that fails or yields no interface leaves the
\* retained previous snapshot and its count as they were, and the process
\* goes on to the next sleep.
C3_SkippedCycleKeepsPrevious ==
    [][ (pc = "read" /\ (~dev'.readable \/ curr_count' <= 0)) =>
            /\ prev_interfaces' = prev_interfaces
            /\ prev_count' = prev_count
            /\ pc' = "sleep"
            /\ exit_status' = -1 ]_vars

\* C3 witness: a steady-loop read found the file unreadable while a
\* snapshot was retained
C3_Witness == CycleSkipped /\ ~dev.readable /\ prev_count >= 1

\* C4 as stated: a steady-loop cycle whose read fails or yields no
\* interface writes no line at all.
C4_SkippedCycleSilent == CycleSkipped => out = << >>

\* C4 amended: such a cycle writes no sample line; it writes nothing when
\* the read yields no interface, and exactly the error line of
\* read_interfaces when the file cannot be opened.
C4_SkippedCycleOutput ==
    CycleSkipped =>
        /\ \A k \in 1..Len(out) : out[k].kind # "sample"
        /\ dev.readable => out = << >>
        /\ ~dev.readable =>
              out = << [ kind |-> "error", text |-> Str_Error,
                         tooltip |-> "Cannot open /proc/net/dev" ] >>

\* C4 witness: a skipped cycle whose read could not open the file
C4_Witness == CycleSkipped /\ ~dev.readable /\ Len(out) = 1

\* C5: when the first read fails or yields no interface the process exits
\* with status 1 and has not slept, read again or written a sample line.
C5_FirstReadFatal ==
    (n_reads >= 1 /\ prev_count <= 0) =>
        /\ pc = "exit"
        /\ exit_status = 1
        /\ n_reads = 1
        /\ n_sleeps = 0
        /\ \A k \in 1..Len(out) : out[k].kind # "sample"
        /\ ~ENABLED Next

\* C5 witness: the first read found no eligible interface
C5_Witness ==
    n_reads = 1 /\ dev.readable /\ prev_count = 0 /\ pc = "exit" /\ n_sleeps = 0

\* the text is a whole number of seconds >= 1: decimal digits only, not all
\* of them zero
IsWholeSeconds(arg) ==
    /\ Len(arg) >= 1
    /\ \A k \in 1..Len(arg) : arg[k] \in { DigitChars[d] : d \in 1..10 }
    /\ \E k \in 1..Len(arg) : arg[k] # "0"

\* C6: once getopt has returned an interval option whose value is not a
\* whole number of seconds >= 1, the process has written the error line
\* and exited with a non-zero status, and no snapshot has been read.
C6_BadIntervalRejected ==
    (\E k \in 1..optidx :
        /\ argv.opts[k].opt = "t"
        /\ ~IsWholeSeconds(argv.opts[k].arg)
        /\ \A h \in 1..(k - 1) : argv.opts[h].opt = "t" /\ IsWholeSeconds(argv.opts[h].arg))
    => /\ pc = "exit"
       /\ exit_status # 0 /\ exit_status # -1
       /\ n_reads = 0
       /\ Len(out) = 1 /\ out[1].kind = "error"

\* some positional name has no entry in /sys/class/net
SomeNameMissing == \E k \in 1..Len(argv.names) : argv.names[k] \notin SysClassNet

\* C7: with a missing positional name no snapshot is ever read and no
\* sample written; once the names are stored the process has exited with
\* status 1 after the one error line that names the first missing name.
C7_MissingInterfaceFatal ==
    SomeNameMissing =>
        /\ n_reads = 0 /\ n_sleeps = 0
        /\ \A k \in 1..Len(out) : out[k].kind # "sample"
        /\ filter_count > 0 =>
              /\ pc = "exit" /\ exit_status = 1
              /\ \E m \in 1..Len(argv.names) :
                    /\ argv.names[m] \notin SysClassNet
                    /\ \A k \in 1..(m - 1) : argv.names[k] \in SysClassNet
                    /\ out = << [ kind |-> "error", text |-> argv.names[m],
                                  tooltip |-> "Interface does not exist" ] >>

\* C7 witness: the second of three names is missing
C7_Witness ==
    /\ pc = "exit" /\ filter_count = 3
    /\ argv.names[1] \in SysClassNet /\ argv.names[2] \notin SysClassNet
    /\ Len(out) = 1 /\ out[1].text = argv.names[2]


\* the text before the colon with its leading spaces removed
Trimmed(head) ==
    CHOOSE t \in { SubSeq(head, k, Len(head)) : k \in 1..(Len(head) + 1) } :
        /\ \A k \in 1..(Len(head) - Len(t)) : head[k] = " "
        /\ (t = << >> \/ t[1] # " ")

\* a well-formed line: a colon and at least sixteen numbers after it
WellFormed(line) == line.colon /\ Len(line.fields) >= 16

\* the entries 1..count of the array are the lines of the file at the
\* positions in keep, in file order, cut after MAX_INTERFACES: each with the
\* first 15 characters of its name, its 1st number as rx and its 9th as tx
HoldsExactly(interfaces, count, lines, keep) ==
    /\ count = IF Cardinality(keep) > MAX_INTERFACES THEN MAX_INTERFACES
               ELSE Cardinality(keep)
    /\ \A n \in 1..count :
          \E k \in keep :
              /\ Cardinality({ h \in keep : h <= k }) = n
              /\ Len(interfaces[n].name) <= 15
              /\ HasPrefix(Trimmed(lines[k].head), interfaces[n].name)
              /\ (Len(interfaces[n].name) = Len(Trimmed(lines[k].head))
                  \/ Len(interfaces[n].name) = 15)
              /\ interfaces[n].rx_bytes = ToU64(lines[k].fields[1])
              /\ interfaces[n].tx_bytes = ToU64(lines[k].fields[9])

\* the initial read has been made and could open the file
ReadDone == n_reads = 1 /\ dev.readable

\* C8: with a filter list the snapshot holds exactly the well-formed lines
\* whose name equals a listed name, character for character; the prefix
\* pattern plays no part.
C8_FilterListExact ==
    (ReadDone /\ filter_count > 0) =>
        HoldsExactly(prev_interfaces, prev_count, dev.lines,
                     { k \in 1..Len(dev.lines) :
                         /\ WellFormed(dev.lines[k])
                         /\ \E m \in 1..Len(argv.names) :
                               argv.names[m] = Trimmed(dev.lines[k].head) })

\* C8 witness: the list is eth0 alone; the file has eth0, wlan0 and lo and
\* the snapshot holds eth0 only
C8_Witness ==
    /\ ReadDone
    /\ argv.names = << Str_eth0 >>
    /\ { Trimmed(dev.lines[k].head) : k \in 1..Len(dev.lines) }
          = { Str_eth0, Str_wlan0, Str_lo }
    /\ \A k \in 1..Len(dev.lines) : WellFormed(dev.lines[k])
    /\ prev_count = 1 /\ prev_interfaces[1].name = Str_eth0

\* the name starts with eth, wlan, enp or wlp
StandardName(name) ==
    \/ Len(name) >= 3 /\ name[1] = "e" /\ name[2] = "t" /\ name[3] = "h"
    \/ Len(name) >= 4 /\ name[1] = "w" /\ name[2] = "l" /\ name[3] = "a" /\ name[4] = "n"
    \/ Len(name) >= 3 /\ name[1] = "e" /\ name[2] = "n" /\ name[3] = "p"
    \/ Len(name) >= 3 /\ name[1] = "w" /\ name[2] = "l" /\ name[3] = "p"

\* C9: without a filter list the snapshot holds exactly the well-formed
\* lines whose name starts with eth, wlan, enp or wlp.
C9_PrefixHeuristic ==
    (ReadDone /\ filter_count = 0) =>
        HoldsExactly(prev_interfaces, prev_count, dev.lines,
                     { k \in 1..Len(dev.lines) :
                         /\ WellFormed(dev.lines[k])
                         /\ StandardName(Trimmed(dev.lines[k].head)) })

\* C9 witness: the file has eth0, wlan0, lo and docker0 and the snapshot
\* holds eth0 and wlan0 only
C9_Witness ==
    /\ ReadDone /\ filter_count = 0
    /\ Len(dev.lines) = 4
    /\ { Trimmed(dev.lines[k].head) : k \in 1..Len(dev.lines) }
          = { Str_eth0, Str_wlan0, Str_lo, Str_docker0 }
    /\ \A k \in 1..Len(dev.lines) : WellFormed(dev.lines[k])
    /\ prev_count = 2
    /\ { prev_interfaces[1].name, prev_interfaces[2].name } = { Str_eth0, Str_wlan0 }

(***************************************************************************)
(* C11, C12: the formatter.                                                *)
(***************************************************************************)
\* the number the first n characters of s spell in decimal
RECURSIVE NumberOf(_, _)
NumberOf(s, n) ==
    IF n = 0 THEN 0 ELSE 10 * NumberOf(s, n - 1) + DigitValue(s[n])

\* s is a non-empty run of digits with no superfluous leading zero
IsNumeral(s) ==
    /\ Len(s) >= 1
    /\ \A i \in 1..Len(s) : IsDigit(s[i])
    /\ (Len(s) > 1 => s[1] # "0")

\* the units above B, in order
ScaleUnits == << "K", "M", "G", "T", "P" >>

\* s is a numeral, a point, exactly one digit and one of the units above B
IsScaledForm(s) ==
    /\ Len(s) >= 4
    /\ \E k \in 1..5 : s[Len(s)] = ScaleUnits[k]
    /\ IsDigit(s[Len(s) - 1])
    /\ s[Len(s) - 2] = "."
    /\ IsNumeral(SubSeq(s, 1, Len(s) - 3))

\* the number of thousands-steps the unit of s stands for
UnitSteps(s) == CHOOSE k \in 1..5 : s[Len(s)] = ScaleUnits[k]

\* the number s shows, in tenths
ShownTenths(s) == 10 * NumberOf(s, Len(s) - 3) + DigitValue(s[Len(s) - 1])

\* | a - b |
Distance64(a, b) == IF Less64(a, b) THEN Sub64(b, a) ELSE Sub64(a, b)

\* a * 1000^k modulo 2^64
RECURSIVE TimesPowBase(_, _)
TimesPowBase(a, k) ==
    IF k = 0 THEN a ELSE TimesPowBase(MulSmall64(a, DECIMAL_BASE), k - 1)

\* s names the unit k and shows bytes / 1000^k to the nearest tenth (a value
\* halfway between two tenths may go to either), up to the relative
\* precision 2^-50 of double arithmetic; the number shown is at least 1.0
\* and, below the last unit, at most 1000.0
ShowsScaled(bytes, s) ==
    /\ IsScaledForm(s)
    /\ LET k == UnitSteps(s)
           t == ShownTenths(s)
       IN  /\ t >= 10
           /\ k < 5 => t <= 10 * DECIMAL_BASE
           /\ k = 5 => t <= 184467
           /\ ~Less64(Add64(TimesPowBase(ToU64(50), k - 1), Shr64(bytes, 50)),
                      Distance64(bytes, TimesPowBase(ToU64(100 * t), k - 1)))

\* s is <d>.<d>K and shows bytes / 1000 rounded to the nearest tenth
ShowsKilo(bytes, s) ==
    /\ IsScaledForm(s)
    /\ UnitSteps(s) = 1
    /\ ~Less64(ToU64(50), Distance64(bytes, ToU64(100 * ShownTenths(s))))

\* the formatted fields of the sample lines of out, each with its rate
FormattedFields ==
    UNION { { << out[k].rx, out[k].rx_str >>, << out[k].tx, out[k].tx_str >> } :
            k \in { j \in 1..Len(out) : out[j].kind = "sample" } }

\* C11: a rate of at least 1000 is shown with one of the units K..P, as
\* many divisions by 1000 as bring the value below 1000 (or to P), and
\* exactly one digit after the decimal point; from 1000 up to 999999 the
\* field is <d>.<d>K and shows b / 1000 rounded to one decimal place.
C11_ScaledFormat ==
    \A f \in FormattedFields :
        ~Less64(f[1], ToU64(DECIMAL_BASE)) =>
            /\ ShowsScaled(f[1], f[2])
            /\ Less64(f[1], PowBase(2)) => ShowsKilo(f[1], f[2])

\* a rate of 999950 has been printed as 1000.0K, one of 1150 as 1.1K and
\* one of 2^64 - 1 as 18446.7P
C11_Witness ==
    /\ pc = "formatted"
    /\ \/ << ToU64(999950), << "1", "0", "0", "0", ".", "0", "K" >> >>
              \in FormattedFields
       \/ << ToU64(1150), << "1", ".", "1", "K" >> >> \in FormattedFields
       \/ << Sub64(Zero64, ToU64(1)),
             << "1", "8", "4", "4", "6", ".", "7", "P" >> >> \in FormattedFields

\* C12: a rate below 1000 is shown as the integer itself followed by B,
\* with no decimal point.
C12_PlainBytes ==
    \A f \in FormattedFields :
        Less64(f[1], ToU64(DECIMAL_BASE)) =>
            /\ Len(f[2]) >= 2
            /\ f[2][Len(f[2])] = "B"
            /\ IsNumeral(SubSeq(f[2], 1, Len(f[2]) - 1))
            /\ ToU64(NumberOf(f[2], Len(f[2]) - 1)) = f[1]

\* a rate of 999 has been printed as 999B
C12_Witness ==
    /\ pc = "formatted"
    /\ << ToU64(999), << "9", "9", "9", "B" >> >> \in FormattedFields

(***************************************************************************)
(* C13, C14, C15: the steady loop.                                         *)
(***************************************************************************)
\* the process is in the steady loop
InSteadyLoop == pc \in { "sleep", "read", "calculate", "copy" }

\* the retained previous snapshot: its entries up to its count
Retained == Entries(prev_interfaces, prev_count)

\* C13: at the start of every steady cycle the retained snapshot is the
\* content of the most recent read that returned at least one interface;
\* in a successful cycle the retained snapshot stays as it was through the
\* read and the calculation, the line printed is the one computed against
\* it, and only then the new snapshot replaces it.
C13_RetainedIsLastGoodRead ==
    /\ [](pc \in { "sleep", "read" } => Retained = last_good)
    /\ [][ (pc \in { "read", "calculate" }) =>
              (prev_interfaces' = prev_interfaces /\ prev_count' = prev_count) ]_vars
    /\ [](Calculated =>
              /\ Entries(curr_interfaces, curr_count) = last_good
              /\ out = calculate_and_output_rates(prev_interfaces, curr_interfaces,
                                                  curr_count, polling_interval).out)
    /\ [][ (pc = "copy") =>
              (Entries(prev_interfaces', prev_count') = last_good /\ out' = out) ]_vars

\* C13 witness: the second cycle was skipped, and the retained snapshot is
\* the one the first cycle read, which differs from the initial one in its
\* count
C13_Witness ==
    /\ CycleSkipped
    /\ n_sleeps = 2
    /\ prev_age = 1
    /\ prev_count = 2
    /\ Retained = last_good
    /\ Len(dev.lines) = 1

\* seconds slept since the retained snapshot was read
ElapsedSeconds == MulSmall64(U32ToU64(polling_interval), prev_age)

\* C14: every rate is the counter difference between the two snapshots
\* compared divided by the seconds elapsed between the two, also when
\* cycles between them were skipped.
C14_RatePerElapsedSecond ==
    Calculated =>
        \A i \in 1..curr_count :
            PairedWith(i) # 0 =>
                /\ IsQuotient64(rate[i].rx_rate,
                                Sub64(curr_interfaces[i].rx_bytes,
                                      prev_interfaces[PairedWith(i)].rx_bytes),
                                ElapsedSeconds)
                /\ IsQuotient64(rate[i].tx_rate,
                                Sub64(curr_interfaces[i].tx_bytes,
                                      prev_interfaces[PairedWith(i)].tx_bytes),
                                ElapsedSeconds)

\* C15: once the initial read has returned at least one interface the
\* process is in the steady loop and has no exit status, whatever the
\* reads that followed returned: no read outcome leads out of the loop.
C15_SteadyLoopNeverExits ==
    last_good # << >> => InSteadyLoop /\ exit_status = -1

\* C15 witness: the loop goes on after two cycles that were both skipped,
\* the second on an unreadable file
C15_Witness ==
    /\ CycleSkipped
    /\ n_sleeps = 2
    /\ prev_age = 2
    /\ ~dev.readable
    /\ exit_status = -1

(***************************************************************************)
(* C16, C17, C19: one read of /proc/net/dev.                               *)
(***************************************************************************)
\* the positions of the lines of the file that are well-formed and whose
\* name the filter list, or without one the prefix pattern, admits
EligibleLines ==
    { k \in 1..Len(dev.lines) :
        /\ WellFormed(dev.lines[k])
        /\ IF filter_count > 0
           THEN \E m \in 1..Len(argv.names) : argv.names[m] = Trimmed(dev.lines[k].head)
           ELSE StandardName(Trimmed(dev.lines[k].head)) }

\* C16: a snapshot never holds more than 32 interfaces and nothing is
\* written past the entries counted; when more than 32 lines are eligible
\* the snapshot is the first 32 of them in file order.
C16_AtMostMaxInterfaces ==
    ReadDone =>
        /\ prev_count <= MAX_INTERFACES
        /\ DOMAIN prev_interfaces = 1..MAX_INTERFACES
        /\ \A i \in 1..MAX_INTERFACES :
              i > prev_count => prev_interfaces[i] = ZeroInterfaces[i]
        /\ Cardinality(EligibleLines) > MAX_INTERFACES =>
              /\ prev_count = MAX_INTERFACES
              /\ HoldsExactly(prev_interfaces, MAX_INTERFACES, dev.lines, EligibleLines)

\* C16 witness: 34 lines of distinct names are eligible, after the line of
\* lo and the short line among them; the snapshot holds 32, the last of
\* them eth34
C16_Witness ==
    /\ ReadDone
    /\ filter_count = 0
    /\ Len(dev.lines) = MAX_INTERFACES + 4
    /\ Cardinality(EligibleLines) = MAX_INTERFACES + 2
    /\ prev_count = MAX_INTERFACES
    /\ prev_interfaces[MAX_INTERFACES].name = EthName(MAX_INTERFACES + 2)

\* C17: a line with no colon or with fewer than 16 numbers changes
\* nothing: the read returns the count and the entries it returns on the
\* file without such lines, prints nothing, and the process goes on or
\* ends as it does on that file.
C17_MalformedLinesSkipped ==
    ReadDone =>
        \E r \in { read_interfaces(ZeroInterfaces,
                                   DevFile(TRUE, SelectSeq(dev.lines, WellFormed)),
                                   interface_filter, filter_count) } :
            /\ prev_count = r.ret
            /\ prev_interfaces = r.interfaces
            /\ out = << >>
            /\ err = << >>
            /\ exit_status = IF r.ret >= 1 THEN -1 ELSE 1

\* C17 witness: a line one number short and a line without a colon stand
\* between two lines that are collected
C17_Witness ==
    /\ ReadDone
    /\ Len(dev.lines) = 4
    /\ WellFormed(dev.lines[1])
    /\ dev.lines[2].colon /\ ~WellFormed(dev.lines[2])
    /\ ~dev.lines[3].colon
    /\ WellFormed(dev.lines[4])
    /\ prev_count = 2
    /\ prev_interfaces[1].name = Str_eth0
    /\ prev_interfaces[2].name = Str_wlp15
    /\ out = << >>
    /\ pc = "sleep"

\* the first 15 characters of a name
First15(name) == SubSeq(name, 1, IF Len(name) < 15 THEN Len(name) ELSE 15)

\* no two entries of the snapshot have the same name
NamesUnique ==
    \A i, j \in 1..prev_count :
        i # j => prev_interfaces[i].name # prev_interfaces[j].name

\* C19: when the eligible lines of the file carry pairwise distinct names,
\* no two entries of the snapshot have the same name.
C19_DistinctNamesStayDistinct ==
    ( /\ ReadDone
      /\ \A k, h \in EligibleLines :
            k # h => Trimmed(dev.lines[k].head) # Trimmed(dev.lines[h].head) )
    => NamesUnique

\* C19 as amended: when the eligible lines carry names that are pairwise
\* distinct in their first 15 characters, no two entries of the snapshot
\* have the same name.
C19_DistinctPrefixesStayDistinct ==
    ( /\ ReadDone
      /\ \A k, h \in EligibleLines :
            k # h => First15(Trimmed(dev.lines[k].head))
                        # First15(Trimmed(dev.lines[h].head)) )
    => NamesUnique

\* C19 witness: a name of 16 characters was stored cut to 15, next to two
\* other names, and the three entries differ
C19_Witness ==
    /\ ReadDone
    /\ prev_count = 3
    /\ \E k \in EligibleLines : Len(Trimmed(dev.lines[k].head)) = 16
    /\ \E i \in 1..prev_count : prev_interfaces[i].name = Str_wlp15
    /\ NamesUnique

(***************************************************************************)
(* C18, C20: the interval and the guard of the rate calculation.           *)
(***************************************************************************)
\* C18: once the options have been accepted the polling interval is at
\* least 1, so every rate is computed with a divisor that is not zero.
C18_IntervalAtLeastOne ==
    (pc = "initial_read" \/ InSteadyLoop) =>
        /\ polling_interval # ToU32(0)
        /\ U32ToU64(polling_interval) # Zero64
        /\ ~Less64(U32ToU64(polling_interval), ToU64(1))

\* C18 witness: rates have been computed under -t 2
C18_Witness ==
    /\ Calculated
    /\ curr_count >= 1
    /\ Len(argv.opts) = 1
    /\ polling_interval = ToU32(2)
    /\ rate[1].rx_rate = ToU64(1000)

\* C20: in the steady loop the retained count is at least 1, and a cycle
\* whose read returned at least one interface has printed exactly one
\* line, a sample line, when it comes to the copy and when it is over.
C20_SuccessfulCycleEmitsOneSample ==
    /\ InSteadyLoop => prev_count >= 1
    /\ (pc = "copy" \/ (pc = "sleep" /\ n_sleeps >= 1 /\ curr_count >= 1)) =>
          /\ curr_count >= 1
          /\ Len(out) = 1
          /\ out[1].kind = "sample"

\* C20 witness: the second cycle read two interfaces and printed one
\* sample line with rates above zero
C20_Witness ==
    /\ pc = "sleep"
    /\ n_sleeps = 2
    /\ curr_count = 2
    /\ prev_count = 2
    /\ Len(out) = 1
    /\ out[1].kind = "sample"
    /\ out[1].rx # Zero64

=============================================================================
